---- MODULE Spec2Model ----
(***************************************************************************)
(* Model of the UniswapV2 Pair of src/v2/pair.rs: the cached record        *)
(* (address, tokens, deployed, reserves, protocol), its two constructors   *)
(* and Pair::sync, which refreshes the record from one Multicall3 batch    *)
(* and decodes the batch with parse_tokens_result / parse_reserves_result. *)
(***************************************************************************)
EXTENDS Integers, Sequences, FiniteSets, TLC

\* ------------------------------------------------------------------ bounds
\* Token addresses are 1..MaxAddr, compared as the 20-byte values are.
MaxAddr == 2
\* reserve0 and reserve1 range over 1..MaxReserve.
MaxReserve == 2

\* Consecutive reverting syncs are counted up to MaxReverts.
MaxReverts == 2

\* The constructor runs draw the factory among MaxFactory factory addresses.
MaxFactory == 4

\* ------------------------------------------------------ Option and Result
None == <<>>
Some(x) == <<x>>
is_none(o) == o = None
is_some(o) == o /= None

Ok(x) == [tag |-> "Ok", val |-> x]
Err(e) == [tag |-> "Err", val |-> e]

\* ------------------------------------------------------- ethers abi::Token
TokenBool(b) == [t |-> "Bool", v |-> b]
TokenAddress(a) == [t |-> "Address", v |-> a]
TokenUint(n) == [t |-> "Uint", v |-> n]
TokenString(s) == [t |-> "String", v |-> s]
TokenBytes(b) == [t |-> "Bytes", v |-> b]
TokenTuple(ts) == [t |-> "Tuple", v |-> ts]

\* ---------------------------------------------------------------- domains
Addresses == 1..MaxAddr
\* type Reserves = (u128, u128, u32); the timestamp is test_parsing's.
ReservesValues == {<<r0, r1, 1337>> : r0 \in 1..MaxReserve, r1 \in 1..MaxReserve}
\* Revert reasons; the code never inspects the text.
ErrorMessages == {"Error message", ""}
\* Revert data that is not an Error(string).
RevertData == {"0x4e487b71"}
Protocols == {"UniswapV2", "Sushiswap"}
FactoryAddress == MaxAddr + 1

\* ------------------------------------------------------------ Library (v2)
\* Deployment-code hash of a protocol's pair contract (Protocol Registry).
pair_code_hash(protocol) == IF protocol = "UniswapV2" THEN 1 ELSE 2

\* Canonical ascending order; equal addresses are rejected.
sort_tokens(a, b) ==
    IF a = b THEN Err("IdenticalAddresses")
    ELSE IF a < b THEN Ok(<<a, b>>) ELSE Ok(<<b, a>>)

\* Keccak-256 is modelled as an injective encoding of its input.
AddrBase == MaxAddr + 2
create2(factory_address, salt, code_hash) ==
    AddrBase + (factory_address * AddrBase * AddrBase + salt) * 2 + (code_hash - 1)

pair_for(factory, a, b) ==
    LET sorted == sort_tokens(a, b) IN
    IF sorted.tag = "Err" THEN sorted
    ELSE Ok(create2(factory.address,
                    sorted.val[1] * AddrBase + sorted.val[2],
                    pair_code_hash(factory.protocol)))

Factories == [address : {FactoryAddress}, protocol : Protocols]

\* ------------------------------------------------------------ constructors
\* As new_with_factory, but the tokens are stored in the order given.
new_with_factory_unsorted(factory, token0, token1) ==
    LET address == pair_for(factory, token0, token1) IN
    IF address.tag = "Err" THEN address
    ELSE Ok([address |-> address.val,
             tokens |-> Some(<<token0, token1>>),
             deployed |-> FALSE,
             reserves |-> None,
             protocol |-> factory.protocol])

new(address, protocol) ==
    [address |-> address, tokens |-> None, deployed |-> FALSE,
     reserves |-> None, protocol |-> protocol]

new_with_factory(factory, token0, token1) ==
    LET sorted == sort_tokens(token0, token1) IN
    IF sorted.tag = "Err" THEN sorted
    ELSE LET address == pair_for(factory, sorted.val[1], sorted.val[2]) IN
         IF address.tag = "Err" THEN address
         ELSE Ok([address |-> address.val,
                  tokens |-> Some(<<sorted.val[1], sorted.val[2]>>),
                  deployed |-> FALSE,
                  reserves |-> None,
                  protocol |-> factory.protocol])

\* --------------------------------------------------- Detokenize (ethers abi)
\* Detokenize::from_tokens: one token is decoded as is, several as a tuple.
Detokenize(tokens) == IF Len(tokens) = 1 THEN tokens[1] ELSE TokenTuple(tokens)

IsTuple(token, n) == token.t = "Tuple" /\ Len(token.v) = n

\* (bool, Address)
IsBoolAddress(token) ==
    /\ IsTuple(token, 2)
    /\ token.v[1].t = "Bool"
    /\ token.v[2].t = "Address"

\* Reserves = (u128, u128, u32)
IsReserves(token) ==
    /\ IsTuple(token, 3)
    /\ \A i \in 1..3 : token.v[i].t = "Uint"

\* (bool, Reserves)
IsBoolReserves(token) ==
    /\ IsTuple(token, 2)
    /\ token.v[1].t = "Bool"
    /\ IsReserves(token.v[2])

\* (bool, String)
IsErrorResult(token) ==
    /\ IsTuple(token, 2)
    /\ token.v[1].t = "Bool"
    /\ token.v[2].t = "String"

\* type TokensResult = ((bool, Address), (bool, Address))
TokensResult_from_tokens(tokens) ==
    LET token == Detokenize(tokens) IN
    IF IsTuple(token, 2) /\ IsBoolAddress(token.v[1]) /\ IsBoolAddress(token.v[2])
    THEN Ok(<< <<token.v[1].v[1].v, token.v[1].v[2].v>>,
               <<token.v[2].v[1].v, token.v[2].v[2].v>> >>)
    ELSE Err("InvalidOutputType")

\* type ReservesResult = (bool, Reserves)
ReservesResult_from_tokens(tokens) ==
    LET token == Detokenize(tokens) IN
    IF IsBoolReserves(token)
    THEN Ok(<<token.v[1].v,
              <<token.v[2].v[1].v, token.v[2].v[2].v, token.v[2].v[3].v>> >>)
    ELSE Err("InvalidOutputType")

\* type ErrorResult = (bool, String)
ErrorResult_from_tokens(tokens) ==
    LET token == Detokenize(tokens) IN
    IF IsErrorResult(token)
    THEN Ok(<<token.v[1].v, token.v[2].v>>)
    ELSE Err("InvalidOutputType")

\* D::from_tokens for the type D that parse_result is instantiated with.
from_tokens(D, tokens) ==
    CASE D = "TokensResult" -> TokensResult_from_tokens(tokens)
      [] D = "ReservesResult" -> ReservesResult_from_tokens(tokens)
      [] D = "ErrorResult" -> ErrorResult_from_tokens(tokens)

\* ----------------------------------------------------------------- parsing
parse_errors(tokens) ==
    [i \in 1..Len(tokens) |->
        LET r == from_tokens("ErrorResult", <<tokens[i]>>) IN
        IF r.tag = "Ok" THEN Some(r.val[2]) ELSE None]

\* As parse_result, but an undecodable failure is taken for a revert.
parse_result_swallowing(D, tokens) ==
    LET res == from_tokens(D, tokens) IN
    IF res.tag = "Err" THEN Ok(None) ELSE Ok(Some(res.val))

parse_result(D, tokens) ==
    LET res == from_tokens(D, tokens) IN
    IF res.tag = "Err"
    THEN LET errors == parse_errors(tokens) IN
         IF \E i \in 1..Len(errors) : is_none(errors[i])
         THEN Err("DetokenizationError")
         ELSE Ok(None)
    ELSE Ok(Some(res.val))

\* As parse_tokens_result, but the two addresses change places.
parse_tokens_result_swapped(tokens) ==
    LET res == parse_result("TokensResult", tokens) IN
    IF res.tag = "Err" THEN res
    ELSE IF is_some(res.val)
         THEN LET r == res.val[1] IN
              IF r[1][1] /\ r[2][1]
              THEN Ok(Some(<<r[2][2], r[1][2]>>))
              ELSE Ok(None)
         ELSE Ok(None)

parse_tokens_result(tokens) ==
    LET res == parse_result("TokensResult", tokens) IN
    IF res.tag = "Err" THEN res
    ELSE IF is_some(res.val)
         THEN LET r == res.val[1] IN
              IF r[1][1] /\ r[2][1]
              THEN Ok(Some(<<r[1][2], r[2][2]>>))
              ELSE Ok(None)
         ELSE Ok(None)

parse_reserves_result(tokens) ==
    LET res == parse_result("ReservesResult", tokens) IN
    IF res.tag = "Err" THEN res
    ELSE IF is_some(res.val)
         THEN LET r == res.val[1] IN
              IF r[1] THEN Ok(Some(r[2])) ELSE Ok(None)
         ELSE Ok(None)

\* ------------------------------------------------- Multicall3 batch results
\* call_raw gives one (success, payload) tuple per added call, in call order.
\* A successful call carries its decoded return value; a reverted call, which
\* add_call(.., true) allows, carries the revert reason string or, when the
\* revert data is not an Error(string), the raw bytes.
RevertedCall ==
    {TokenTuple(<<TokenBool(FALSE), TokenString(m)>>) : m \in ErrorMessages}
    \cup {TokenTuple(<<TokenBool(FALSE), TokenBytes(d)>>) : d \in RevertData}

\* token0() / token1()
TokenCallResults ==
    {TokenTuple(<<TokenBool(TRUE), TokenAddress(a)>>) : a \in Addresses}
    \cup RevertedCall

\* getReserves()
ReservesCallResults ==
    {TokenTuple(<<TokenBool(TRUE),
                  TokenTuple(<<TokenUint(r[1]), TokenUint(r[2]), TokenUint(r[3])>>)>>) :
        r \in ReservesValues}
    \cup RevertedCall

CallRawResults(sync_tokens, sync_reserves) ==
    LET ts == IF sync_tokens
              THEN {<<t0, t1>> : t0 \in TokenCallResults, t1 \in TokenCallResults}
              ELSE {<<>>}
        rs == IF sync_reserves
              THEN {<<r>> : r \in ReservesCallResults}
              ELSE {<<>>}
    IN {t \o r : t \in ts, r \in rs}

\* Where the round trip can fail: Multicall::new(..).await? or call_raw().await?
Transports == {"ok", "new_failed", "call_raw_failed"}

\* -------------------------------------------------------------- Pair::sync
\* As not_deployed, but the deployed flag is left as it was.
not_deployed_keeping_flag(self) == [self EXCEPT !.tokens = None]

\* As not_deployed, but the cached tokens are left as they were.
not_deployed_keeping_tokens(self) == [self EXCEPT !.deployed = FALSE]

\* The failure path of every arm of the match: the pair is taken as not deployed.
not_deployed(self) == [self EXCEPT !.tokens = None, !.deployed = FALSE]

\* The match on (sync_tokens, sync_reserves) over the batch that call_raw gave:
\* the Pair after the call and the value returned.
sync_commit(self, sync_tokens, sync_reserves, result) ==
    IF sync_tokens /\ sync_reserves THEN
        LET tokens == parse_tokens_result(SubSeq(result, 1, 2)) IN
        IF tokens.tag = "Err" THEN [self |-> self, ret |-> tokens.val]
        ELSE LET reserves == parse_reserves_result(SubSeq(result, 3, Len(result))) IN
             IF reserves.tag = "Err" THEN [self |-> self, ret |-> reserves.val]
             ELSE IF is_none(tokens.val) \/ is_none(reserves.val)
                  THEN [self |-> not_deployed(self), ret |-> "Ok"]
                  ELSE [self |-> [self EXCEPT !.deployed = TRUE,
                                              !.tokens = tokens.val,
                                              !.reserves = reserves.val],
                        ret |-> "Ok"]
    ELSE IF sync_tokens THEN
        LET tokens == parse_tokens_result(result) IN
        IF tokens.tag = "Err" THEN [self |-> self, ret |-> tokens.val]
        ELSE IF is_none(tokens.val)
             THEN [self |-> not_deployed(self), ret |-> "Ok"]
             ELSE [self |-> [self EXCEPT !.deployed = TRUE, !.tokens = tokens.val],
                   ret |-> "Ok"]
    ELSE IF sync_reserves THEN
        LET reserves == parse_reserves_result(result) IN
        IF reserves.tag = "Err" THEN [self |-> self, ret |-> reserves.val]
        ELSE IF is_none(reserves.val)
             THEN [self |-> not_deployed(self), ret |-> "Ok"]
             ELSE [self |-> [self EXCEPT !.deployed = TRUE, !.reserves = reserves.val],
                   ret |-> "Ok"]
    ELSE [self |-> self, ret |-> "Ok"]

\* As sync, but a failure of call_raw is handled like a failed call.
sync_resetting_on_call_raw_failure(self, sync_tokens, sync_reserves, transport, result) ==
    IF transport = "new_failed"
    THEN [self |-> self, ret |-> "MulticallError"]
    ELSE IF transport = "call_raw_failed"
    THEN [self |-> not_deployed(self), ret |-> "MulticallError"]
    ELSE sync_commit(self, sync_tokens, sync_reserves, result)

\* As sync, but a call that asks for no facet takes the failure path.
sync_resetting_on_no_facet(self, sync_tokens, sync_reserves, transport, result) ==
    IF transport /= "ok"
    THEN [self |-> self, ret |-> "MulticallError"]
    ELSE IF ~sync_tokens /\ ~sync_reserves
    THEN [self |-> not_deployed(self), ret |-> "Ok"]
    ELSE sync_commit(self, sync_tokens, sync_reserves, result)

\* As sync, but a decode error is handled like a failed call before it is returned.
sync_resetting_on_decode_error(self, sync_tokens, sync_reserves, transport, result) ==
    IF transport /= "ok"
    THEN [self |-> self, ret |-> "MulticallError"]
    ELSE LET out == sync_commit(self, sync_tokens, sync_reserves, result) IN
         IF out.ret = "DetokenizationError"
         THEN [self |-> not_deployed(self), ret |-> out.ret]
         ELSE out

\* As sync, but the first successful batch only marks the pair deployed.
sync_committing_late(self, sync_tokens, sync_reserves, transport, result) ==
    IF transport /= "ok"
    THEN [self |-> self, ret |-> "MulticallError"]
    ELSE LET out == sync_commit(self, sync_tokens, sync_reserves, result) IN
         IF ~self.deployed /\ out.self.deployed
         THEN [self |-> [self EXCEPT !.deployed = TRUE], ret |-> out.ret]
         ELSE out

\* One call of sync: either await fails and `?` returns the error before the
\* match is reached, or the batch comes back and is committed.
sync(self, sync_tokens, sync_reserves, transport, result) ==
    IF transport /= "ok"
    THEN [self |-> self, ret |-> "MulticallError"]
    ELSE sync_commit(self, sync_tokens, sync_reserves, result)

\* ------------------------------------------------------------------- state
VARIABLES
    pair,   \* the Pair the caller owns
    pc,     \* "constructed": never synced; "returned": sync has just returned
            \* and the caller holds its result; "idle": the result was dropped
    pre,    \* the Pair as it was when the last call began
    args,   \* the last call: its flags, the transport's fate and the batch
    ret,    \* what the last call returned
    reverts \* history: how many syncs in a row, up to now, asked for a facet
            \* and had every call revert with a reason string

vars == <<pair, pc, pre, args, ret, reverts>>

Call(op, sync_tokens, sync_reserves, transport, result) ==
    [op |-> op, sync_tokens |-> sync_tokens, sync_reserves |-> sync_reserves,
     transport |-> transport, result |-> result]

NoCall(op) == Call(op, FALSE, FALSE, "ok", <<>>)

InitNew ==
    \E address \in Addresses, protocol \in Protocols :
        /\ pair = new(address, protocol)
        /\ args = NoCall("new")

InitNewWithFactory ==
    \E factory \in Factories, token0 \in Addresses, token1 \in Addresses :
        /\ new_with_factory(factory, token0, token1).tag = "Ok"
        /\ pair = new_with_factory(factory, token0, token1).val
        /\ args = NoCall("new_with_factory")

Init ==
    /\ InitNew \/ InitNewWithFactory
    /\ pc = "constructed"
    /\ pre = pair
    /\ ret = "Ok"
    /\ reverts = 0

\* Every call of the batch came back as (false, reason string).
AllRevertedWithReason(result) ==
    \A i \in 1..Len(result) : ~result[i].v[1].v /\ result[i].v[2].t = "String"

\* One whole call of Pair::sync, from its entry to its return.
Sync ==
    /\ pc \in {"constructed", "idle"}
    /\ \E sync_tokens \in BOOLEAN, sync_reserves \in BOOLEAN, transport \in Transports :
        \E result \in (IF transport = "ok"
                       THEN CallRawResults(sync_tokens, sync_reserves)
                       ELSE {<<>>}) :
            LET out == sync(pair, sync_tokens, sync_reserves, transport, result) IN
            /\ pair' = out.self
            /\ ret' = out.ret
            /\ pre' = pair
            /\ args' = Call("sync", sync_tokens, sync_reserves, transport, result)
            /\ pc' = "returned"
            /\ reverts' = IF transport = "ok" /\ (sync_tokens \/ sync_reserves)
                              /\ AllRevertedWithReason(result)
                           THEN IF reverts < MaxReverts THEN reverts + 1 ELSE reverts
                           ELSE 0

\* The caller drops the returned borrow of the Pair; the batch query and its
\* result are transient and are not retained after the call.
Release ==
    /\ pc = "returned"
    /\ pc' = "idle"
    /\ pre' = pair
    /\ args' = NoCall("idle")
    /\ ret' = "Ok"
    /\ UNCHANGED <<pair, reverts>>

Next == Sync \/ Release

Spec == Init /\ [][Next]_vars

\* ------------------------------------------------- syncing twice in a row
\* The caller calls sync again with the same flags, nothing changed on chain:
\* the round trip completes and the batch brings the same results.
Resync ==
    /\ pc = "returned"
    /\ args.op = "sync"
    /\ args.transport = "ok"
    /\ \E out \in {sync(pair, args.sync_tokens, args.sync_reserves,
                         args.transport, args.result)} :
        /\ pair' = out.self
        /\ ret' = out.ret
    /\ pre' = pair
    /\ args' = [args EXCEPT !.op = "resync"]
    /\ pc' = "returned"
    /\ reverts' = IF (args.sync_tokens \/ args.sync_reserves)
                      /\ AllRevertedWithReason(args.result)
                   THEN IF reverts < MaxReverts THEN reverts + 1 ELSE reverts
                   ELSE 0

NextResync == Sync \/ Resync \/ Release

SpecResync == Init /\ [][NextResync]_vars

\* ------------------------------------------------------- Factory (v2)
\* An abort of the thread (panic) as the outcome of a call.
Panic(msg) == [tag |-> "Panic", val |-> msg]

\* Factory::client: the body is todo!().
Factory_client(factory) == Panic("not yet implemented")

\* Factory::pair_for: the arguments of Pair::new are evaluated first.
Factory_pair_for(factory, token_a, token_b) ==
    LET address == pair_for(factory, token_a, token_b) IN
    IF address.tag = "Err" THEN address
    ELSE LET client == Factory_client(factory) IN
         IF client.tag = "Panic" THEN client
         ELSE Ok(new(address.val, factory.protocol))

\* --------------------------------------------- building pairs from a factory
FactoryAddresses == (MaxAddr + 1)..(MaxAddr + MaxFactory)
AllFactories == [address : FactoryAddresses, protocol : Protocols]

BuildCall(op, factory, token_a, token_b) ==
    [op |-> op, factory |-> factory, token_a |-> token_a, token_b |-> token_b]

\* A factory and two token addresses are at hand; no Pair is built yet.
InitBuild ==
    /\ \E factory \in AllFactories, token_a \in Addresses, token_b \in Addresses :
           args = BuildCall("none", factory, token_a, token_b)
    /\ pc = "start"
    /\ pair = None
    /\ pre = None
    /\ ret = "none"
    /\ reverts = 0

\* factory.pair_for(token_a, token_b)
CallPairFor ==
    /\ pc = "start"
    /\ LET out == Factory_pair_for(args.factory, args.token_a, args.token_b) IN
        /\ ret' = out.tag
        /\ pair' = IF out.tag = "Ok" THEN Some(out.val) ELSE None
    /\ args' = [args EXCEPT !.op = "pair_for"]
    /\ pc' = "done"
    /\ UNCHANGED <<pre, reverts>>

\* Pair::new_with_factory(client, factory, token_a, token_b)
CallNewWithFactory ==
    /\ pc = "start"
    /\ LET out == new_with_factory(args.factory, args.token_a, args.token_b) IN
        /\ ret' = out.tag
        /\ pair' = IF out.tag = "Ok" THEN Some(out.val) ELSE None
    /\ args' = [args EXCEPT !.op = "new_with_factory"]
    /\ pc' = "built"
    /\ UNCHANGED <<pre, reverts>>

\* Pair::new_with_factory(client, factory, token_b, token_a), the first Pair kept.
CallNewWithFactorySwapped ==
    /\ pc = "built"
    /\ LET out == new_with_factory(args.factory, args.token_b, args.token_a) IN
        /\ ret' = out.tag
        /\ pair' = IF out.tag = "Ok" THEN Some(out.val) ELSE None
    /\ pre' = pair
    /\ args' = [args EXCEPT !.op = "new_with_factory_swapped"]
    /\ pc' = "done"
    /\ UNCHANGED reverts

NextBuild == CallPairFor \/ CallNewWithFactory \/ CallNewWithFactorySwapped

SpecBuild == InitBuild /\ [][NextBuild]_vars

\* ------------------------------------------------ Pair::sync, step by step
\* The same call taken statement by statement: the two awaits, the decoding
\* of each facet with `?`, and the assignments of the arm one at a time.
\* args carries the locals of the call; awaits and submitted count the
\* suspend points passed and the submissions of the batch.
StepCall(sync_tokens, sync_reserves) ==
    [op |-> "sync", sync_tokens |-> sync_tokens, sync_reserves |-> sync_reserves,
     transport |-> "ok", result |-> <<>>, awaits |-> 0, submitted |-> 0,
     tokens |-> None, reserves |-> None, todo |-> <<>>]

Assignment(field, value) == [field |-> field, value |-> value]

\* The assignments of the arm of the match that is taken, in program order.
arm_assignments(sync_tokens, sync_reserves, tokens, reserves) ==
    LET failure == <<Assignment("tokens", None), Assignment("deployed", FALSE)>> IN
    IF sync_tokens /\ sync_reserves THEN
        IF is_none(tokens) \/ is_none(reserves) THEN failure
        ELSE <<Assignment("deployed", TRUE), Assignment("tokens", tokens),
               Assignment("reserves", reserves)>>
    ELSE IF sync_tokens THEN
        IF is_none(tokens) THEN failure
        ELSE <<Assignment("deployed", TRUE), Assignment("tokens", tokens)>>
    ELSE IF sync_reserves THEN
        IF is_none(reserves) THEN failure
        ELSE <<Assignment("deployed", TRUE), Assignment("reserves", reserves)>>
    ELSE <<>>

InitSteps ==
    /\ \/ /\ pair = new(1, "UniswapV2")
          /\ args = NoCall("new")
       \/ \E token0 \in Addresses, token1 \in Addresses :
            LET made == new_with_factory([address |-> FactoryAddress,
                                          protocol |-> "UniswapV2"], token0, token1) IN
            /\ made.tag = "Ok"
            /\ pair = made.val
            /\ args = NoCall("new_with_factory")
    /\ pc = "constructed"
    /\ pre = pair
    /\ ret = "Ok"
    /\ reverts = 0

\* sync is entered with its two flags.
Enter ==
    /\ pc \in {"constructed", "idle"}
    /\ \E sync_tokens \in BOOLEAN, sync_reserves \in BOOLEAN :
           args' = StepCall(sync_tokens, sync_reserves)
    /\ pre' = pair
    /\ ret' = "pending"
    /\ pc' = "multicall_new"
    /\ UNCHANGED <<pair, reverts>>

\* Multicall::new(self.client.clone(), None).await?
AwaitMulticallNew ==
    /\ pc = "multicall_new"
    /\ \/ /\ args' = [args EXCEPT !.awaits = @ + 1]
          /\ pc' = "call_raw"
          /\ UNCHANGED ret
       \/ /\ args' = [args EXCEPT !.awaits = @ + 1, !.transport = "new_failed"]
          /\ pc' = "returned"
          /\ ret' = "MulticallError"
    /\ UNCHANGED <<pair, pre, reverts>>

\* As AwaitCallRaw, but a failed submission is tried once more.
AwaitCallRawRetrying ==
    /\ pc = "call_raw"
    /\ \/ \E result \in CallRawResults(args.sync_tokens, args.sync_reserves) :
            /\ args' = [args EXCEPT !.awaits = @ + 1, !.submitted = @ + 1,
                                     !.result = result]
            /\ pc' = "decode_tokens"
            /\ UNCHANGED ret
       \/ /\ args.submitted = 0
          /\ args' = [args EXCEPT !.awaits = @ + 1, !.submitted = @ + 1]
          /\ pc' = "call_raw"
          /\ UNCHANGED ret
       \/ /\ args.submitted > 0
          /\ args' = [args EXCEPT !.awaits = @ + 1, !.submitted = @ + 1,
                                   !.transport = "call_raw_failed"]
          /\ pc' = "returned"
          /\ ret' = "MulticallError"
    /\ UNCHANGED <<pair, pre, reverts>>

\* The calls are added to the batch and multicall.call_raw().await? submits it.
AwaitCallRaw ==
    /\ pc = "call_raw"
    /\ \/ \E result \in CallRawResults(args.sync_tokens, args.sync_reserves) :
            /\ args' = [args EXCEPT !.awaits = @ + 1, !.submitted = @ + 1,
                                     !.result = result]
            /\ pc' = "decode_tokens"
            /\ UNCHANGED ret
       \/ /\ args' = [args EXCEPT !.awaits = @ + 1, !.submitted = @ + 1,
                                   !.transport = "call_raw_failed"]
          /\ pc' = "returned"
          /\ ret' = "MulticallError"
    /\ UNCHANGED <<pair, pre, reverts>>

\* As DecodeTokens, but the decoded tokens are stored in the Pair at once.
DecodeTokensCommitting ==
    /\ pc = "decode_tokens"
    /\ IF args.sync_tokens
       THEN LET tokens == parse_tokens_result(SubSeq(args.result, 1, 2)) IN
            IF tokens.tag = "Err"
            THEN /\ pc' = "returned"
                 /\ ret' = tokens.val
                 /\ UNCHANGED <<args, pair>>
            ELSE /\ args' = [args EXCEPT !.tokens = tokens.val]
                 /\ pair' = [pair EXCEPT !.tokens = tokens.val]
                 /\ pc' = "decode_reserves"
                 /\ UNCHANGED ret
       ELSE /\ pc' = "decode_reserves"
            /\ UNCHANGED <<args, ret, pair>>
    /\ UNCHANGED <<pre, reverts>>

\* let tokens = parse_tokens_result(..)?; in the arms that ask for tokens.
DecodeTokens ==
    /\ pc = "decode_tokens"
    /\ IF args.sync_tokens
       THEN LET tokens == parse_tokens_result(SubSeq(args.result, 1, 2)) IN
            IF tokens.tag = "Err"
            THEN /\ pc' = "returned"
                 /\ ret' = tokens.val
                 /\ UNCHANGED args
            ELSE /\ args' = [args EXCEPT !.tokens = tokens.val]
                 /\ pc' = "decode_reserves"
                 /\ UNCHANGED ret
       ELSE /\ pc' = "decode_reserves"
            /\ UNCHANGED <<args, ret>>
    /\ UNCHANGED <<pair, pre, reverts>>

\* let reserves = parse_reserves_result(..)?; in the arms that ask for
\* reserves; the arm's assignments are then known.
DecodeReserves ==
    /\ pc = "decode_reserves"
    /\ LET first == IF args.sync_tokens THEN 3 ELSE 1
           reserves == IF args.sync_reserves
                       THEN parse_reserves_result(
                                SubSeq(args.result, first, Len(args.result)))
                       ELSE Ok(None)
       IN IF reserves.tag = "Err"
          THEN /\ pc' = "returned"
               /\ ret' = reserves.val
               /\ UNCHANGED args
          ELSE /\ args' = [args EXCEPT
                              !.reserves = reserves.val,
                              !.todo = arm_assignments(args.sync_tokens,
                                           args.sync_reserves, args.tokens,
                                           reserves.val)]
               /\ pc' = "commit"
               /\ UNCHANGED ret
    /\ UNCHANGED <<pair, pre, reverts>>

\* The next assignment to a field of self.
Assign ==
    /\ pc = "commit"
    /\ args.todo /= <<>>
    /\ pair' = [pair EXCEPT ![Head(args.todo).field] = Head(args.todo).value]
    /\ args' = [args EXCEPT !.todo = Tail(@)]
    /\ UNCHANGED <<pc, pre, ret, reverts>>

\* Ok(self)
Return ==
    /\ pc = "commit"
    /\ args.todo = <<>>
    /\ pc' = "returned"
    /\ ret' = "Ok"
    /\ UNCHANGED <<pair, pre, args, reverts>>

NextSteps ==
    \/ Enter \/ AwaitMulticallNew \/ AwaitCallRaw
    \/ DecodeTokens \/ DecodeReserves \/ Assign \/ Return
    \/ Release

SpecSteps == InitSteps /\ [][NextSteps]_vars

\* ------------------------------------------------- vocabulary of the claims
\* A sync has just returned / its round trip completed / it asked for a facet.
Returned == pc = "returned"
Completed == Returned /\ args.transport = "ok"
Requested == args.sync_tokens \/ args.sync_reserves
Calls == 1..Len(args.result)

\* What the batch says about call i, read off the raw tuple.
Succeeded(i) == args.result[i].v[1].v
Reverted(i) == ~args.result[i].v[1].v
RevertedWithReason(i) == Reverted(i) /\ args.result[i].v[2].t = "String"
\* Neither the success shape of the call nor (bool, string).
NeitherShape(i) == Reverted(i) /\ args.result[i].v[2].t /= "String"

AnyCallFailed == \E i \in Calls : Reverted(i)
AllCallsSucceeded == \A i \in Calls : Succeeded(i)
NoNeitherShape == \A i \in Calls : ~NeitherShape(i)

\* The values a successful batch returned.
ReturnedTokens == <<args.result[1].v[2].v, args.result[2].v[2].v>>
ReturnedReserves ==
    LET r == args.result[Len(args.result)].v[2].v IN <<r[1].v, r[2].v, r[3].v>>

\* ------------------------------------------------------------------ claims
\* C1: a both-facets sync whose round trip completed and in which any one of
\* token0(), token1(), getReserves() reports failure leaves tokens = none,
\* reserves = none and deployed = false. (Stated on the batches in which every
\* payload has a recognised shape.)
C1_AtomicCommitBothFacets ==
    (Completed /\ args.sync_tokens /\ args.sync_reserves
        /\ NoNeitherShape /\ AnyCallFailed)
    => (is_none(pair.tokens) /\ is_none(pair.reserves) /\ ~pair.deployed)

\* C2: in every reachable state, reserves present implies deployed.
C2_ReservesImplyDeployed == is_some(pair.reserves) => pair.deployed

\* C3: in every reachable state, deployed = false implies tokens = none and
\* reserves = none.
C3_UndeployedIsEmpty ==
    ~pair.deployed => (is_none(pair.tokens) /\ is_none(pair.reserves))

\* C4: a tokens-only sync returns successfully; tokens are committed only if
\* token0() and token1() both succeeded, and if either reports failure the
\* pair has tokens = none and deployed = false. (Stated on the batches in
\* which every payload has a recognised shape.)
C4_TokensAllOrNothing ==
    (Completed /\ args.sync_tokens /\ ~args.sync_reserves /\ NoNeitherShape)
    => /\ ret = "Ok"
       /\ AnyCallFailed => (is_none(pair.tokens) /\ ~pair.deployed)
       /\ AllCallsSucceeded => pair.tokens = Some(ReturnedTokens)

\* C5: a reserves-only sync in which getReserves() reports failure leaves
\* reserves absent and deployed = false, whatever was cached before.
C5_ReservesAllOrNothing ==
    (Completed /\ ~args.sync_tokens /\ args.sync_reserves
        /\ NoNeitherShape /\ AnyCallFailed)
    => (is_none(pair.reserves) /\ ~pair.deployed)

\* C6: a sync that asked for a facet and in which every requested call
\* succeeded returns Ok with deployed = true and each requested facet equal to
\* the values of that batch; a sync that returns Ok leaves the pair deployed
\* only if every requested call succeeded.
C6_AllSuccessCommit ==
    (Completed /\ Requested)
    => /\ AllCallsSucceeded
            => /\ ret = "Ok"
               /\ pair.deployed
               /\ args.sync_tokens => pair.tokens = Some(ReturnedTokens)
               /\ args.sync_reserves => pair.reserves = Some(ReturnedReserves)
       /\ (ret = "Ok" /\ pair.deployed) => AllCallsSucceeded

\* An all-success sync of both facets replaced other cached tokens and reserves.
C6_Witness ==
    /\ Completed /\ args.sync_tokens /\ args.sync_reserves /\ AllCallsSucceeded
    /\ is_some(pre.tokens) /\ pre.tokens /= Some(ReturnedTokens)
    /\ is_some(pre.reserves) /\ pre.reserves /= Some(ReturnedReserves)
    /\ ReturnedTokens[1] /= ReturnedTokens[2]
    /\ pair.deployed

\* C7: when the round trip fails, at Multicall::new or at call_raw, sync
\* returns the transport error and address, tokens, reserves, deployed and
\* protocol are what they were before the call.
C7_TransportFailureKeepsState ==
    (Returned /\ args.transport /= "ok")
    => (ret = "MulticallError" /\ pair = pre)

\* call_raw failed on a deployed pair with both facets cached.
C7_Witness ==
    /\ Returned /\ args.transport = "call_raw_failed"
    /\ pre.deployed /\ is_some(pre.tokens) /\ is_some(pre.reserves)
    /\ ret = "MulticallError"

C9_TokensSortedDistinct ==
    is_some(pair.tokens) => pair.tokens[1][1] < pair.tokens[1][2]

C12_NoFacetIsNoOp ==
    (Returned /\ ~args.sync_tokens /\ ~args.sync_reserves) => pair = pre

\* A completed sync(false, false) on a deployed pair with both facets cached.
C12_Witness ==
    /\ Completed /\ ~args.sync_tokens /\ ~args.sync_reserves /\ ret = "Ok"
    /\ pre.deployed /\ is_some(pre.tokens) /\ is_some(pre.reserves)

\* Pair::tokens
Pair_tokens(self) == self.tokens

\* C15: on a Pair that has not been synced yet, whichever constructor made
\* it, tokens() returns None.
C15_TokensNoneBeforeSync ==
    pc = "constructed" => is_none(Pair_tokens(pair))

\* C18: from every reachable state a sync whose requested calls all succeed
\* leads to deployed = true, and from every deployed state a sync with a
\* failing call leads back to deployed = false, tokens = none. (Stated on the
\* batches in which every payload has a recognised shape.)
C18_NoStickyState ==
    (Completed /\ Requested /\ NoNeitherShape)
    => /\ AllCallsSucceeded => pair.deployed
       /\ (pre.deployed /\ AnyCallFailed) => (~pair.deployed /\ is_none(pair.tokens))

\* C19 as claimed: a sync that asks for one facet only leaves the cached
\* value of the other facet as it was.
C19_OtherFacetUntouched ==
    /\ (Returned /\ args.sync_tokens /\ ~args.sync_reserves)
        => pair.reserves = pre.reserves
    /\ (Returned /\ ~args.sync_tokens /\ args.sync_reserves)
        => pair.tokens = pre.tokens

\* C19 as amended: a tokens-only sync leaves reserves as they were; a
\* reserves-only sync leaves tokens as they were unless getReserves() reverts
\* with a reason string, and then it clears tokens.
C19_OtherFacetUntouchedUnlessReverted ==
    /\ (Returned /\ args.sync_tokens /\ ~args.sync_reserves)
        => pair.reserves = pre.reserves
    /\ (Returned /\ ~args.sync_tokens /\ args.sync_reserves)
        => IF args.transport = "ok" /\ RevertedWithReason(1)
           THEN is_none(pair.tokens)
           ELSE pair.tokens = pre.tokens

\* A reserves-only sync reverted on a pair that had tokens cached.
C19_Witness ==
    /\ Completed /\ ~args.sync_tokens /\ args.sync_reserves
    /\ RevertedWithReason(1)
    /\ is_some(pre.tokens) /\ is_none(pair.tokens)

\* C20: when sync returns the detokenization error, tokens, reserves and
\* deployed (and address, protocol) are what they were before the call.
C20_DecodeErrorKeepsState ==
    (Returned /\ ret = "DetokenizationError") => pair = pre

\* Both facets asked on a deployed pair: the token results decoded, to other
\* tokens than the cached ones, and the reserves result was malformed.
C20_Witness ==
    /\ Completed /\ args.sync_tokens /\ args.sync_reserves
    /\ Succeeded(1) /\ Succeeded(2) /\ NeitherShape(3)
    /\ ret = "DetokenizationError"
    /\ pre.deployed /\ is_some(pre.tokens) /\ pre.tokens /= Some(ReturnedTokens)

\* C11: two syncs in a row with the same flags and the same batch results
\* leave the same tokens, reserves and deployed after the second call as
\* after the first (whether or not the pair was deployed before the first).
C11_SyncIsIdempotent ==
    (Returned /\ args.op = "resync")
    => /\ pair.tokens = pre.tokens
       /\ pair.reserves = pre.reserves
       /\ pair.deployed = pre.deployed

\* The second of two all-success syncs of both facets on a pair that is
\* synced and deployed.
C11_Witness ==
    /\ Returned /\ args.op = "resync"
    /\ args.sync_tokens /\ args.sync_reserves /\ AllCallsSucceeded
    /\ pre.deployed /\ pre.tokens = Some(ReturnedTokens)
    /\ pre.reserves = Some(ReturnedReserves)
    /\ pair.deployed /\ ret = "Ok"

\* C13: Factory.pair_for(token_a, token_b) for two distinct token addresses
\* completes and returns a Pair at the derived address with deployed = false
\* and tokens and reserves unknown.
C13_PairForReturnsPair ==
    (pc = "done" /\ args.op = "pair_for" /\ args.token_a /= args.token_b)
    => /\ ret = "Ok"
       /\ is_some(pair)
       /\ pair[1].address = pair_for(args.factory, args.token_a, args.token_b).val
       /\ ~pair[1].deployed
       /\ is_none(pair[1].tokens) /\ is_none(pair[1].reserves)

\* C14: for every factory and all distinct a, b, new_with_factory(factory, a, b)
\* and new_with_factory(factory, b, a) give the same pair address and the same
\* ordered tokens, the lesser first, with deployed = false and reserves = none.
C14_DerivationIsSymmetric ==
    (pc = "done" /\ args.op = "new_with_factory_swapped" /\ args.token_a /= args.token_b)
    => LET lesser == IF args.token_a < args.token_b THEN args.token_a ELSE args.token_b
           greater == IF args.token_a < args.token_b THEN args.token_b ELSE args.token_a
       IN /\ is_some(pre) /\ is_some(pair)
          /\ pair[1].address = pre[1].address
          /\ pre[1].tokens = Some(<<lesser, greater>>)
          /\ pair[1].tokens = Some(<<lesser, greater>>)
          /\ ~pre[1].deployed /\ ~pair[1].deployed
          /\ is_none(pre[1].reserves) /\ is_none(pair[1].reserves)

\* Both orders were built, the first call having had to reorder its tokens.
C14_Witness ==
    /\ pc = "done" /\ args.op = "new_with_factory_swapped"
    /\ args.token_a > args.token_b
    /\ is_some(pre) /\ is_some(pair) /\ ret = "Ok"

\* Inside a call of sync, at or before the decoding of the batch.
BeforeCommit ==
    pc \in {"multicall_new", "call_raw", "decode_tokens", "decode_reserves"}

\* C16: within one sync call no field of the Pair is assigned until the batch
\* has been submitted and every requested result decoded; what the caller
\* finds on return is the whole update of that one batch (or, on an error,
\* the Pair as it was), never a part of it.
C16_CommitAfterDecode ==
    /\ BeforeCommit => pair = pre
    /\ Returned
        => LET out == sync(pre, args.sync_tokens, args.sync_reserves,
                           args.transport, args.result) IN
           /\ pair = out.self
           /\ ret = out.ret

\* A both-facets sync returned having changed deployed, tokens and reserves.
C16_Witness ==
    /\ Completed /\ args.sync_tokens /\ args.sync_reserves /\ ret = "Ok"
    /\ pair.deployed /\ ~pre.deployed
    /\ pair.tokens /= pre.tokens /\ pair.reserves /= pre.reserves
    /\ args.todo = <<>>

\* C17 as claimed: a sync invocation has one suspend point, the single
\* submission of the batch; no other awaited operation can fail, and the
\* batch is submitted at most once.
C17_OneSuspendPoint ==
    Returned
    => /\ args.awaits <= 1
       /\ args.submitted <= 1
       /\ ret = "MulticallError" => args.submitted = 1

\* C17 as amended: a sync invocation has two suspend points, in this order:
\* Multicall::new(..).await, which can fail, and the single submission of the
\* batch; the batch is never submitted more than once and is not submitted
\* when Multicall::new fails.
C17_TwoSuspendPointsOneSubmission ==
    /\ (BeforeCommit \/ pc = "commit")
        => (args.awaits <= 2 /\ args.submitted <= 1 /\ args.submitted <= args.awaits)
    /\ Returned
        => IF args.transport = "new_failed"
           THEN args.awaits = 1 /\ args.submitted = 0 /\ ret = "MulticallError"
           ELSE args.awaits = 2 /\ args.submitted = 1

\* A sync that returned Ok after both awaits and one submission.
C17_Witness ==
    /\ Completed /\ Requested /\ ret = "Ok"
    /\ args.awaits = 2 /\ args.submitted = 1

====
